---- MODULE Spec2Model ----
(***************************************************************************)
(* Model of gurobi_ml/modeling/neuralnet/activations.py: the Identity,     *)
(* ReLU and SiLU activation encoders, each a mip_model(layer) method that  *)
(* reads a layer object and adds variables and constraints to the layer's  *)
(* gurobipy model (layer.gp_model).                                        *)
(*                                                                         *)
(* gp_model is modelled by what the encoders do to it: the variable arrays *)
(* (MVar) it holds, the constraints it holds, and the order of the calls   *)
(* made on it.  A layer object is modelled by the attributes the encoders  *)
(* probe with hasattr and read.                                            *)
(***************************************************************************)
EXTENDS Integers, Sequences, FiniteSets, TLC

VARIABLES gp_model, layer, history

vars == <<gp_model, layer, history>>

(* ---------------------------- bounds ----------------------------------- *)

\* number of mip_model invocations in one behaviour
MaxCalls == 3
\* largest extent of one dimension of output.shape
MaxDim == 2

\* output.shape: one or two dimensions, each of extent 1..MaxDim
Shapes == UNION {[1..r -> 1..MaxDim] : r \in 1..2}

\* the layers (contexts) of one model; the string is the layer's base name
Layers == {"L1", "L2"}

\* GRB.INFINITY (1e100 in gurobipy), scaled to the model's integers
Infinity == 1000

\* bounds the output array may carry before an encoder runs: (lb, ub)
InitBounds == {<<-Infinity, Infinity>>, <<-2, 5>>}

(* ------------------------- layer naming -------------------------------- *)

\* layer._name_var(role): name of a variable array of the layer
NameVar(l, role) == [base |-> l, role |-> role, idx |-> <<>>]

\* layer._indexed_name(index, role): name of a per-element constraint
IndexedName(l, index, role) == [base |-> l, role |-> role, idx |-> index]

\* a constraint added without name= keeps gurobipy's default (empty) name
NoName == [base |-> "", role |-> "", idx |-> <<>>]

(* --------------------------- np.ndindex -------------------------------- *)

\* prepend i to every index of a sequence of indices
RECURSIVE Prepend(_, _)
Prepend(i, idxs) ==
    IF idxs = <<>> THEN <<>>
    ELSE <<(<<i>> \o Head(idxs))>> \o Prepend(i, Tail(idxs))

\* NdFrom(i, n, rest): indices i..n-1 of the leading dimension, each
\* followed by every index of the trailing dimensions, in order
RECURSIVE NdFrom(_, _, _)
NdFrom(i, n, rest) ==
    IF i >= n THEN <<>> ELSE Prepend(i, rest) \o NdFrom(i + 1, n, rest)

\* np.ndindex(shape): every index of the shape, 0-based, last dimension
\* varying fastest
RECURSIVE NdIndex(_)
NdIndex(shape) ==
    IF shape = <<>> THEN << <<>> >>
    ELSE NdFrom(0, Head(shape), NdIndex(Tail(shape)))

(* ------------------------ gurobipy model calls ------------------------- *)

\* the local variable `mixing` of mip_model before any assignment to it
Unbound == <<>>

\* index used by a constraint over whole arrays (MVar == MLinExpr)
Whole == <<>>

\* record of one call on gp_model, in call order
Call(op, id, call) == [op |-> op, id |-> id, call |-> call]

\* gp_model.addMVar(shape, lb=lb, vtype=GRB.CONTINUOUS, name=name);
\* the new array's handle is its position in gm.vars; ub keeps the default
AddMVar(gm, shape, lb, name, call) ==
    [gm EXCEPT
       !.vars = Append(@, [name |-> name, shape |-> shape,
                           lb |-> lb, ub |-> Infinity, vtype |-> "C"]),
       !.calls = Append(@, Call("addMVar", Len(gm.vars) + 1, call))]

\* gp_model.update()
Update(gm, call) ==
    [gm EXCEPT !.calls = Append(@, Call("update", 0, call))]

\* one constraint: `kind` relates res[resIdx] to arg[argIdx] and const
Constr(kind, res, resIdx, arg, argIdx, const, name) ==
    [kind |-> kind, res |-> res, resIdx |-> resIdx,
     arg |-> arg, argIdx |-> argIdx, const |-> const, name |-> name]

\* gp_model.addConstr / addGenConstrMax / addGenConstrExp: append c
AddC(gm, op, c, call) ==
    [gm EXCEPT
       !.constrs = Append(@, c),
       !.calls = Append(@, Call(op, Len(gm.constrs) + 1, call))]

\* MVar.setAttr(attr, value) on array v
SetAttr(gm, v, attr, value, call) ==
    [gm EXCEPT
       !.vars[v] = IF attr = "lb" THEN [@ EXCEPT !.lb = value]
                   ELSE [@ EXCEPT !.ub = value],
       !.calls = Append(@, Call("setAttr", v, call))]

\* hasattr(layer, name)
HasAttr(lyr, name) == name \in lyr.attrs

(* ------------------------------ Identity ------------------------------- *)

\* mutant of Identity_mip_model: a mixing array is created as in ReLU and
\* the output is equated to it
Identity_with_mixing(gm, lyr, l, call) ==
    IF "coefs" \in lyr.attrs
    THEN LET g1 == AddMVar(gm, gm.vars[lyr.output].shape, -Infinity,
                           NameVar(l, "mix"), call)
         IN  [gm |-> AddC(g1, "addConstr",
                          Constr("affine", lyr.output, Whole, lyr.input,
                                 Whole, 0, NoName), call),
              lyr |-> lyr, outcome |-> "ok"]
    ELSE [gm |-> gm, lyr |-> lyr, outcome |-> "AttributeError"]

\* Identity.mip_model(layer); reading layer.coefs raises AttributeError
\* when the layer has no such attribute, before addConstr is called
Identity_mip_model(gm, lyr, l, call) ==
    IF HasAttr(lyr, "coefs")
    THEN [gm |-> AddC(gm, "addConstr",
                      Constr("affine", lyr.output, Whole, lyr.input, Whole,
                             0, NoName), call),
          lyr |-> lyr, outcome |-> "ok"]
    ELSE [gm |-> gm, lyr |-> lyr, outcome |-> "AttributeError"]

(* -------------------------------- ReLU --------------------------------- *)

\* mutant of ReLU_needs_mixing: the mixing array is created on every call
ReLU_always_creates(lyr) == TRUE

\* ReLU.mip_model, `if not hasattr(layer, "mixing")`
ReLU_needs_mixing(lyr) == ~HasAttr(lyr, "mixing")

\* mutant of ReLU_input: the output array is taken for the operand
ReLU_input_is_output(lyr) == lyr.output

\* ReLU.mip_model, the else branch `mixing = layer._input`
ReLU_input(lyr) == lyr.input

\* ReLU.mip_model, the if/else on hasattr(layer, "coefs").  With coefs:
\* create layer.mixing when the layer has none (binding the local `mixing`),
\* update(), addConstr(layer.mixing == input @ coefs + intercept).
\* Without: the local `mixing` is layer._input.
\* Result: the model, the layer, and the local `mixing` (Unbound or <<id>>).
ReLU_mixing(gm, lyr, l, call) ==
    IF HasAttr(lyr, "coefs")
    THEN LET create == ReLU_needs_mixing(lyr)
             new    == Len(gm.vars) + 1
             g1     == IF create
                       THEN AddMVar(gm, gm.vars[lyr.output].shape, -Infinity,
                                    NameVar(l, "mix"), call)
                       ELSE gm
             lyr1   == IF create
                       THEN [lyr EXCEPT !.attrs = @ \cup {"mixing"},
                                        !.mixing = new]
                       ELSE lyr
             g2     == Update(g1, call)
             g3     == AddC(g2, "addConstr",
                            Constr("affine", lyr1.mixing, Whole,
                                   lyr1.input, Whole, 0, NoName), call)
         IN  [gm |-> g3, lyr |-> lyr1,
              mixing |-> IF create THEN <<new>> ELSE Unbound]
    ELSE [gm |-> gm, lyr |-> lyr, mixing |-> <<ReLU_input(lyr)>>]

\* mutant of ReLU_constr: the operand is the raw input array
ReLU_constr_raw_input(lyr, l, mixing, index) ==
    Constr("max", lyr.output, index, lyr.input, index, 0,
           IndexedName(l, index, "relu"))

\* mutant of ReLU_constr: the constant of the max is 1
ReLU_constr_const1(lyr, l, mixing, index) ==
    Constr("max", lyr.output, index, mixing, index, 1,
           IndexedName(l, index, "relu"))

\* the max constraint of one element:
\* addGenConstrMax(output[index], [mixing[index]], constant=0.0,
\*                 name=layer._indexed_name(index, "relu"))
ReLU_constr(lyr, l, mixing, index) ==
    Constr("max", lyr.output, index, mixing, index, 0,
           IndexedName(l, index, "relu"))

\* ReLU.mip_model, the loop `for index in np.ndindex(output.shape)` over
\* the indices left
RECURSIVE ReLU_loop(_, _, _, _, _, _)
ReLU_loop(gm, lyr, l, mixing, idxs, call) ==
    IF idxs = <<>> THEN gm
    ELSE ReLU_loop(AddC(gm, "addGenConstrMax",
                        ReLU_constr(lyr, l, mixing, Head(idxs)), call),
                   lyr, l, mixing, Tail(idxs), call)

\* mutant of ReLU_mip_model: the output's lower bound is set to 0 first
ReLU_sets_lb(gm, lyr, l, call) ==
    LET a    == ReLU_mixing(SetAttr(gm, lyr.output, "lb", 0, call),
                            lyr, l, call)
        idxs == NdIndex(gm.vars[lyr.output].shape)
    IN  IF a.mixing = Unbound /\ idxs # <<>>
        THEN [gm |-> a.gm, lyr |-> a.lyr, outcome |-> "UnboundLocalError"]
        ELSE [gm |-> ReLU_loop(a.gm, a.lyr, l, Head(a.mixing), idxs, call),
              lyr |-> a.lyr, outcome |-> "ok"]

\* ReLU.mip_model(layer).  Reading the local `mixing` while it is unbound
\* raises UnboundLocalError in the first iteration, before any
\* addGenConstrMax call; what was done to the model before stays done.
ReLU_mip_model(gm, lyr, l, call) ==
    LET a    == ReLU_mixing(gm, lyr, l, call)
        idxs == NdIndex(gm.vars[lyr.output].shape)
    IN  IF a.mixing = Unbound /\ idxs # <<>>
        THEN [gm |-> a.gm, lyr |-> a.lyr, outcome |-> "UnboundLocalError"]
        ELSE [gm |-> ReLU_loop(a.gm, a.lyr, l, Head(a.mixing), idxs, call),
              lyr |-> a.lyr, outcome |-> "ok"]

(* -------------------------------- SiLU --------------------------------- *)

\* mutant of SiLU_bounds: only the lower bound is set
SiLU_bounds_lb_only(gm, lyr, call) ==
    SetAttr(gm, lyr.output, "lb", 0, call)

\* SiLU.mip_model, output.setAttr("lb", 0.0); output.setAttr("ub", 1.0)
SiLU_bounds(gm, lyr, call) ==
    SetAttr(SetAttr(gm, lyr.output, "lb", 0, call), lyr.output, "ub", 1, call)

\* SiLU.mip_model, `if not hasattr(layer, "mixing")`
SiLU_needs_mixing(lyr) == ~HasAttr(lyr, "mixing")

\* SiLU.mip_model, the else branch `mixing = layer._input`
SiLU_input(lyr) == lyr.input

\* SiLU.mip_model, the if/else on hasattr(layer, "coefs"): as in ReLU
SiLU_mixing(gm, lyr, l, call) ==
    IF HasAttr(lyr, "coefs")
    THEN LET create == SiLU_needs_mixing(lyr)
             new    == Len(gm.vars) + 1
             g1     == IF create
                       THEN AddMVar(gm, gm.vars[lyr.output].shape, -Infinity,
                                    NameVar(l, "mix"), call)
                       ELSE gm
             lyr1   == IF create
                       THEN [lyr EXCEPT !.attrs = @ \cup {"mixing"},
                                        !.mixing = new]
                       ELSE lyr
             g2     == Update(g1, call)
             g3     == AddC(g2, "addConstr",
                            Constr("affine", lyr1.mixing, Whole,
                                   lyr1.input, Whole, 0, NoName), call)
         IN  [gm |-> g3, lyr |-> lyr1,
              mixing |-> IF create THEN <<new>> ELSE Unbound]
    ELSE [gm |-> gm, lyr |-> lyr, mixing |-> <<SiLU_input(lyr)>>]

\* mutant of SiLU_aux: the array gets the output's first dimension only
SiLU_aux_first_dim(gm, lyr, l, role, call) ==
    IF ~HasAttr(lyr, role)
    THEN [gm |-> AddMVar(gm, <<Head(gm.vars[lyr.output].shape)>>, -Infinity,
                         NameVar(l, role), call),
          local |-> <<Len(gm.vars) + 1>>]
    ELSE [gm |-> gm, local |-> Unbound]

\* SiLU.mip_model, one `if not hasattr(layer, role): role = addMVar(...)`:
\* the array is bound to a local only; no attribute is set on the layer.
\* Result: the model and the local (Unbound or <<id>>).
SiLU_aux(gm, lyr, l, role, call) ==
    IF ~HasAttr(lyr, role)
    THEN [gm |-> AddMVar(gm, gm.vars[lyr.output].shape, -Infinity,
                         NameVar(l, role), call),
          local |-> <<Len(gm.vars) + 1>>]
    ELSE [gm |-> gm, local |-> Unbound]

\* mutant of SiLU_constrs: the arguments of addGenConstrExp are swapped
SiLU_constrs_exp_swapped(lyr, l, mixing, x, exp_x, exp_sum, index) ==
    << [op |-> "addConstr",
        c  |-> Constr("neg", x, index, mixing, index, 0, NoName)],
       [op |-> "addGenConstrExp",
        c  |-> Constr("exp", x, index, exp_x, index, 0, NoName)],
       [op |-> "addConstr",
        c  |-> Constr("shift", exp_sum, index, exp_x, index, 1, NoName)],
       [op |-> "addConstr",
        c  |-> Constr("bilinear", lyr.output, index, exp_sum, index, 1,
                      IndexedName(l, index, "silu"))] >>

\* the four constraints of one element, in the order they are added:
\*   addConstr(x[index] == - mixing[index])
\*   addGenConstrExp(x[index], exp_x[index])        (exp_x = exp(x))
\*   addConstr(exp_sum[index] == 1 + exp_x[index])
\*   addConstr(output[index] * exp_sum[index] == 1,
\*             name=layer._indexed_name(index, "silu"))
SiLU_constrs(lyr, l, mixing, x, exp_x, exp_sum, index) ==
    << [op |-> "addConstr",
        c  |-> Constr("neg", x, index, mixing, index, 0, NoName)],
       [op |-> "addGenConstrExp",
        c  |-> Constr("exp", exp_x, index, x, index, 0, NoName)],
       [op |-> "addConstr",
        c  |-> Constr("shift", exp_sum, index, exp_x, index, 1, NoName)],
       [op |-> "addConstr",
        c  |-> Constr("bilinear", lyr.output, index, exp_sum, index, 1,
                      IndexedName(l, index, "silu"))] >>

\* add a sequence of constraints in order
RECURSIVE AddAll(_, _, _)
AddAll(gm, cs, call) ==
    IF cs = <<>> THEN gm
    ELSE AddAll(AddC(gm, Head(cs).op, Head(cs).c, call), Tail(cs), call)

\* SiLU.mip_model, the loop `for index in np.ndindex(output.shape)` over
\* the indices left
RECURSIVE SiLU_loop(_, _, _, _, _, _, _, _, _)
SiLU_loop(gm, lyr, l, mixing, x, exp_x, exp_sum, idxs, call) ==
    IF idxs = <<>> THEN gm
    ELSE SiLU_loop(AddAll(gm, SiLU_constrs(lyr, l, mixing, x, exp_x, exp_sum,
                                           Head(idxs)), call),
                   lyr, l, mixing, x, exp_x, exp_sum, Tail(idxs), call)

\* mutant of SiLU_mip_model: exp_sum is created after the loop that uses it
SiLU_late_exp_sum(gm, lyr, l, call) ==
    LET g0   == SiLU_bounds(gm, lyr, call)
        a    == SiLU_mixing(g0, lyr, l, call)
        ax   == SiLU_aux(a.gm, a.lyr, l, "x", call)
        ae   == SiLU_aux(ax.gm, a.lyr, l, "exp_x", call)
        idxs == NdIndex(gm.vars[lyr.output].shape)
    IN  IF a.mixing = Unbound /\ idxs # <<>>
        THEN [gm |-> SiLU_aux(ae.gm, a.lyr, l, "exp_sum", call).gm,
              lyr |-> a.lyr, outcome |-> "UnboundLocalError"]
        ELSE [gm |-> SiLU_aux(SiLU_loop(ae.gm, a.lyr, l, Head(a.mixing),
                                        Head(ax.local), Head(ae.local),
                                        Len(ae.gm.vars) + 1, idxs, call),
                              a.lyr, l, "exp_sum", call).gm,
              lyr |-> a.lyr, outcome |-> "ok"]

\* SiLU.mip_model(layer).  The first statement of the loop reads the locals
\* x and mixing; an unbound one raises UnboundLocalError before any
\* constraint of the loop is added.
SiLU_mip_model(gm, lyr, l, call) ==
    LET g0   == SiLU_bounds(gm, lyr, call)
        a    == SiLU_mixing(g0, lyr, l, call)
        ax   == SiLU_aux(a.gm, a.lyr, l, "x", call)
        ae   == SiLU_aux(ax.gm, a.lyr, l, "exp_x", call)
        as   == SiLU_aux(ae.gm, a.lyr, l, "exp_sum", call)
        idxs == NdIndex(gm.vars[lyr.output].shape)
        unbound == \/ a.mixing = Unbound \/ ax.local = Unbound
                   \/ ae.local = Unbound \/ as.local = Unbound
    IN  IF unbound /\ idxs # <<>>
        THEN [gm |-> as.gm, lyr |-> a.lyr, outcome |-> "UnboundLocalError"]
        ELSE [gm |-> SiLU_loop(as.gm, a.lyr, l, Head(a.mixing),
                               Head(ax.local), Head(ae.local),
                               Head(as.local), idxs, call),
              lyr |-> a.lyr, outcome |-> "ok"]

(* ------------------------------- state --------------------------------- *)

InputOf(l) == IF l = "L1" THEN 1 ELSE 3
OutputOf(l) == IF l = "L1" THEN 2 ELSE 4

Init ==
    \E shape \in Shapes, bnd \in InitBounds, coefs \in SUBSET Layers :
       /\ gp_model =
            [vars |-> [i \in 1..4 |->
                 LET l == IF i <= 2 THEN "L1" ELSE "L2" IN
                 IF i = InputOf(l)
                 THEN [name |-> NameVar(l, "input"), shape |-> shape,
                       lb |-> -Infinity, ub |-> Infinity, vtype |-> "C"]
                 ELSE [name |-> NameVar(l, "output"), shape |-> shape,
                       lb |-> bnd[1], ub |-> bnd[2], vtype |-> "C"]],
             constrs |-> <<>>,
             calls |-> <<>>]
       /\ layer = [l \in Layers |->
                     [attrs |-> IF l \in coefs THEN {"coefs"} ELSE {},
                      input |-> InputOf(l), output |-> OutputOf(l),
                      mixing |-> 0]]
       /\ history = <<>>

\* the caller invokes encoder enc on layer l; r is what mip_model did
Invoke(enc, l, r) ==
    /\ gp_model' = r.gm
    /\ layer' = [layer EXCEPT ![l] = r.lyr]
    /\ history' = Append(history, [enc |-> enc, layer |-> l,
                                   outcome |-> r.outcome])

Identity(l) ==
    /\ Len(history) < MaxCalls
    /\ Invoke("Identity", l,
              Identity_mip_model(gp_model, layer[l], l, Len(history) + 1))

ReLU(l) ==
    /\ Len(history) < MaxCalls
    /\ Invoke("ReLU", l,
              ReLU_mip_model(gp_model, layer[l], l, Len(history) + 1))

SiLU(l) ==
    /\ Len(history) < MaxCalls
    /\ Invoke("SiLU", l,
              SiLU_mip_model(gp_model, layer[l], l, Len(history) + 1))

Next == \E l \in Layers : Identity(l) \/ ReLU(l) \/ SiLU(l)

Spec == Init /\ [][Next]_vars
(* ===================== properties of the encoders ====================== *)

Encoders == {"ReLU", "SiLU"}

\* the calls on gp_model that add a constraint
ConstrOps == {"addConstr", "addGenConstrMax", "addGenConstrExp"}

\* positions in gp_model.calls of the calls made by invocation k
CallsOf(k) == {i \in DOMAIN gp_model.calls : gp_model.calls[i].call = k}

\* variable arrays created / constraints added by invocation k
VarsOf(k) ==
    {gp_model.calls[i].id : i \in {j \in CallsOf(k) :
                                     gp_model.calls[j].op = "addMVar"}}
ConstrsOf(k) ==
    {gp_model.calls[i].id : i \in {j \in CallsOf(k) :
                                     gp_model.calls[j].op \in ConstrOps}}

\* the layer of invocation k has affine parameters (coefs is never added
\* or removed by an encoder)
Affine(k) == HasAttr(layer[history[k].layer], "coefs")

\* invocations before k on the same layer
Earlier(k) == {j \in 1..(k - 1) : history[j].layer = history[k].layer}

\* invocation k found layer.mixing already set: an earlier ReLU or SiLU
\* invocation on that layer created it
MixingBefore(k) ==
    /\ Affine(k)
    /\ \E j \in Earlier(k) : history[j].enc \in Encoders

\* the affine equality sets `mixing == input @ coefs + intercept` of layer l
AffineOf(l) ==
    {i \in DOMAIN gp_model.constrs :
        /\ gp_model.constrs[i].kind = "affine"
        /\ HasAttr(layer[l], "mixing")
        /\ gp_model.constrs[i].res = layer[l].mixing}

\* C1: invoking the same encoder (ReLU or SiLU) twice in a row on one
\* context adds nothing the second time: the second invocation creates no
\* variable array and adds no constraint, so the counts after two
\* invocations equal the counts after one.
C1_Idempotent ==
    \A k \in 2..Len(history) :
       ( /\ history[k].enc \in Encoders
         /\ history[k - 1].enc = history[k].enc
         /\ history[k - 1].layer = history[k].layer )
       => VarsOf(k) = {} /\ ConstrsOf(k) = {}

\* C2: a layer whose mixing array exists holds exactly one affine equality
\* set `mixing == input @ coefs + intercept`, however many ReLU/SiLU
\* invocations followed the one that created mixing.
C2_AffineOnce ==
    \A l \in Layers :
       HasAttr(layer[l], "mixing") => Cardinality(AffineOf(l)) = 1

\* constraint number c references variable array v
Refs(c, v) == gp_model.constrs[c].res = v \/ gp_model.constrs[c].arg = v

\* C3: for every variable array an encoder creates, update() is called
\* after the addMVar that creates it and before every call that adds a
\* constraint referencing it (so before the first such call).
C3_CommitBeforeReference ==
    \A i, j \in DOMAIN gp_model.calls :
       ( /\ i < j
         /\ gp_model.calls[i].op = "addMVar"
         /\ gp_model.calls[j].op \in ConstrOps
         /\ Refs(gp_model.calls[j].id, gp_model.calls[i].id) )
       => \E u \in (i + 1)..(j - 1) : gp_model.calls[u].op = "update"

\* C4: a ReLU or SiLU invocation on a layer with affine parameters whose
\* mixing array already exists completes without raising, and its
\* per-element constraints take the layer's mixing array as operand.
C4_RepeatedInvocationSafe ==
    \A k \in DOMAIN history :
       (history[k].enc \in Encoders /\ MixingBefore(k))
       => /\ history[k].outcome = "ok"
          /\ \E c \in ConstrsOf(k) :
                gp_model.constrs[c].kind \in {"max", "neg"}
          /\ \A c \in ConstrsOf(k) :
                gp_model.constrs[c].kind \in {"max", "neg"}
                => gp_model.constrs[c].arg = layer[history[k].layer].mixing

\* C5: an Identity invocation on a layer without affine parameters
\* succeeds and adds exactly one constraint, the whole-array equality
\* `output == input`.
C5_IdentityWithoutAffine ==
    \A k \in DOMAIN history :
       (history[k].enc = "Identity" /\ ~Affine(k))
       => /\ history[k].outcome = "ok"
          /\ \E c \in DOMAIN gp_model.constrs :
                /\ ConstrsOf(k) = {c}
                /\ gp_model.constrs[c].res = layer[history[k].layer].output
                /\ gp_model.constrs[c].arg = layer[history[k].layer].input
                /\ gp_model.constrs[c].resIdx = Whole
(* --------------------------- C6 .. C10 --------------------------------- *)

\* every element index of a shape: one coordinate per dimension, each from
\* 0 to the extent of its dimension less one
IndexSet(shape) ==
    {ix \in [1..Len(shape) -> 0..(MaxDim - 1)] :
        \A d \in 1..Len(shape) : ix[d] < shape[d]}

\* output.shape of layer l
ShapeOf(l) == gp_model.vars[layer[l].output].shape

\* the array in the mixing role of layer l: layer.mixing with affine
\* parameters, the raw input array without
MixingRole(l) ==
    IF HasAttr(layer[l], "coefs") THEN layer[l].mixing ELSE layer[l].input

\* invocation k is the first ReLU/SiLU invocation on its layer
FirstOn(k) == \A j \in Earlier(k) : history[j].enc \notin Encoders

\* the constraints of a kind added by invocation k
KindOf(k, kind) == {c \in ConstrsOf(k) : gp_model.constrs[c].kind = kind}

\* values an element may take in an assignment
Values == -2..3

\* gurobipy's general max constraint c = addGenConstrMax(r, [a], constant)
\* is satisfied by the values r, a iff r = max(a, constant)
SatMax(c, r, a) == r = IF a >= c.const THEN a ELSE c.const

\* C6: a ReLU invocation that is the first ReLU/SiLU invocation on its
\* layer completes and adds, for every element index of output.shape,
\* exactly one max constraint; each has result output[idx], the single
\* operand mixing[idx] at the same index (mixing: layer.mixing, or the input
\* array without affine parameters), constant 0 and the name
\* _indexed_name(idx, "relu"); so it is satisfied exactly by the values with
\* output[idx] = max(mixing[idx], 0).  Besides these it adds only the
\* affine equality set.
C6_ReLUConstraintSet ==
    \A k \in DOMAIN history :
       (history[k].enc = "ReLU" /\ FirstOn(k))
       => LET l == history[k].layer
              maxes == KindOf(k, "max")
          IN  /\ history[k].outcome = "ok"
              /\ \A ix \in IndexSet(ShapeOf(l)) :
                    Cardinality({c \in maxes :
                                   gp_model.constrs[c].resIdx = ix}) = 1
              /\ \A c \in maxes :
                    LET m == gp_model.constrs[c] IN
                    /\ m.res = layer[l].output
                    /\ m.resIdx \in IndexSet(ShapeOf(l))
                    /\ m.arg = MixingRole(l)
                    /\ m.argIdx = m.resIdx
                    /\ m.const = 0
                    /\ m.name = IndexedName(l, m.resIdx, "relu")
                    /\ \A r, a \in Values :
                          SatMax(m, r, a) <=> (r = IF a > 0 THEN a ELSE 0)
              /\ \A c \in ConstrsOf(k) \ maxes :
                    gp_model.constrs[c].kind = "affine"

\* C6 witness: a first ReLU invocation on a layer with affine parameters
\* and a two-dimensional output added four max constraints.
C6_Witness ==
    \E k \in DOMAIN history :
       /\ history[k].enc = "ReLU" /\ FirstOn(k) /\ Affine(k)
       /\ Len(ShapeOf(history[k].layer)) = 2
       /\ Cardinality(KindOf(k, "max")) = 4

\* the array invocation k created under the name _name_var(role)
Created(k, role) ==
    {v \in VarsOf(k) :
        gp_model.vars[v].name = NameVar(history[k].layer, role)}

\* C7: a SiLU invocation that is the first ReLU/SiLU invocation on its layer
\* completes and adds, for every element index of output.shape, exactly
\* four constraints, all at that index: x[idx] == -mixing[idx];
\* exp_x[idx] == exp(x[idx]); exp_sum[idx] == 1 + exp_x[idx]; and
\* output[idx] * exp_sum[idx] == 1 named _indexed_name(idx, "silu"), where
\* x, exp_x, exp_sum are the arrays this invocation created.
C7_SiLUConstraintChain ==
    \A k \in DOMAIN history :
       (history[k].enc = "SiLU" /\ FirstOn(k))
       => LET l == history[k].layer
              elem == ConstrsOf(k) \ KindOf(k, "affine")
          IN  /\ history[k].outcome = "ok"
              /\ \E x \in Created(k, "x"), ex \in Created(k, "exp_x"),
                    es \in Created(k, "exp_sum") :
                    \A ix \in IndexSet(ShapeOf(l)) :
                       /\ Cardinality({c \in elem :
                              gp_model.constrs[c].resIdx = ix}) = 4
                       /\ \E c \in KindOf(k, "neg") :
                             gp_model.constrs[c] =
                                Constr("neg", x, ix, MixingRole(l), ix, 0,
                                       NoName)
                       /\ \E c \in KindOf(k, "exp") :
                             gp_model.constrs[c] =
                                Constr("exp", ex, ix, x, ix, 0, NoName)
                       /\ \E c \in KindOf(k, "shift") :
                             gp_model.constrs[c] =
                                Constr("shift", es, ix, ex, ix, 1, NoName)
                       /\ \E c \in KindOf(k, "bilinear") :
                             gp_model.constrs[c] =
                                Constr("bilinear", layer[l].output, ix, es,
                                       ix, 1, IndexedName(l, ix, "silu"))
              /\ \A c \in elem :
                    /\ gp_model.constrs[c].resIdx \in IndexSet(ShapeOf(l))
                    /\ gp_model.constrs[c].argIdx = gp_model.constrs[c].resIdx

\* C7 witness: a first SiLU invocation on a layer with affine parameters
\* and a two-dimensional output added sixteen per-element constraints.
C7_Witness ==
    \E k \in DOMAIN history :
       /\ history[k].enc = "SiLU" /\ FirstOn(k) /\ Affine(k)
       /\ Len(ShapeOf(history[k].layer)) = 2
       /\ Cardinality(ConstrsOf(k) \ KindOf(k, "affine")) = 16

\* C8: once SiLU has been invoked on a layer, whether or not the invocation
\* completed, the layer's output array has lower bound 0 and upper bound 1
\* (bounds are attributes of the whole array, so of every element).
C8_SiLUOutputBounds ==
    \A k \in DOMAIN history :
       history[k].enc = "SiLU"
       => /\ gp_model.vars[layer[history[k].layer].output].lb = 0
          /\ gp_model.vars[layer[history[k].layer].output].ub = 1

\* C8 witness: SiLU was invoked on a layer whose output had the bounds
\* (-2, 5) before (both outputs start with the same bounds, and the other
\* layer's output still has them), and one SiLU invocation raised.
C8_Witness ==
    \E k, j \in DOMAIN history, other \in Layers :
       /\ history[k].enc = "SiLU" /\ history[j].enc = "SiLU"
       /\ history[j].outcome = "UnboundLocalError"
       /\ \A i \in DOMAIN history : history[i].layer # other
       /\ gp_model.vars[layer[other].output].lb = -2
       /\ gp_model.vars[layer[other].output].ub = 5
       /\ gp_model.vars[layer[history[k].layer].output].ub = 1

\* C9: for a layer without affine parameters no array named
\* _name_var("mix") exists and layer.mixing is never set; a ReLU or SiLU
\* invocation on it completes, adds no affine equality set, and the operand
\* of each max (ReLU) or negation (SiLU) constraint it adds, one per element
\* index, is the input array's element at the constraint's own index.
C9_NoAffine ==
    \A l \in Layers :
       ~HasAttr(layer[l], "coefs")
       => /\ ~HasAttr(layer[l], "mixing")
          /\ \A v \in DOMAIN gp_model.vars :
                gp_model.vars[v].name # NameVar(l, "mix")
          /\ \A k \in DOMAIN history :
                (history[k].layer = l /\ history[k].enc \in Encoders)
                => LET ops == KindOf(k, "max") \cup KindOf(k, "neg") IN
                   /\ history[k].outcome = "ok"
                   /\ KindOf(k, "affine") = {}
                   /\ \A ix \in IndexSet(ShapeOf(l)) :
                         \E c \in ops : gp_model.constrs[c].resIdx = ix
                   /\ \A c \in ops :
                         /\ gp_model.constrs[c].arg = layer[l].input
                         /\ gp_model.constrs[c].argIdx =
                               gp_model.constrs[c].resIdx

\* C9 witness: both ReLU and SiLU were invoked on one layer without affine
\* parameters.
C9_Witness ==
    \E k, j \in DOMAIN history :
       /\ ~Affine(k) /\ history[k].layer = history[j].layer
       /\ history[k].enc = "ReLU" /\ history[j].enc = "SiLU"
       /\ KindOf(k, "max") # {} /\ KindOf(j, "neg") # {}

\* the arrays created for layer l under the name _name_var("mix")
MixArrays(l) ==
    {v \in DOMAIN gp_model.vars : gp_model.vars[v].name = NameVar(l, "mix")}

\* C10: at most one mixing array is ever created for a layer, and a ReLU or
\* SiLU invocation that finds layer.mixing set creates none; the one created
\* is the layer's mixing attribute.
C10_MixingAtMostOnce ==
    /\ \A l \in Layers :
          /\ Cardinality(MixArrays(l)) <= 1
          /\ HasAttr(layer[l], "mixing") => MixArrays(l) = {layer[l].mixing}
    /\ \A k \in DOMAIN history :
          (history[k].enc \in Encoders /\ MixingBefore(k))
          => Created(k, "mix") = {}

\* C10 witness: ReLU and SiLU were both invoked, three invocations in all,
\* on one layer with affine parameters, which has one mixing array.
C10_Witness ==
    \E l \in Layers :
       /\ HasAttr(layer[l], "coefs")
       /\ Len(history) = 3
       /\ \A k \in DOMAIN history :
             history[k].layer = l /\ history[k].enc \in Encoders
       /\ \E k, j \in DOMAIN history :
             history[k].enc = "ReLU" /\ history[j].enc = "SiLU"
       /\ Cardinality(MixArrays(l)) = 1
(* --------------------------- C11 .. C17 -------------------------------- *)

\* the variable arrays the encoders generated (the input and output arrays
\* of the layers are the caller's)
Generated == {v \in DOMAIN gp_model.vars : \E k \in DOMAIN history : v \in VarsOf(k)}

\* C11: every generated variable array and every generated constraint
\* carries a name, and no two of them carry the same name (the layers have
\* distinct base names, and names are injective in base name, role and
\* index).
C11_NameUniqueness ==
    /\ \A v \in Generated : gp_model.vars[v].name # NoName
    /\ \A c \in DOMAIN gp_model.constrs : gp_model.constrs[c].name # NoName
    /\ \A v, w \in Generated :
          v # w => gp_model.vars[v].name # gp_model.vars[w].name
    /\ \A c, d \in DOMAIN gp_model.constrs :
          c # d => gp_model.constrs[c].name # gp_model.constrs[d].name
    /\ \A v \in Generated, c \in DOMAIN gp_model.constrs :
          gp_model.vars[v].name # gp_model.constrs[c].name

\* C11 restricted to the names the encoders pass explicitly: no two
\* explicitly named objects carry the same name.  (Stated to show that the
\* failure does not rest on the constraints added without a name.)
C11_ExplicitNamesUnique ==
    /\ \A v, w \in Generated :
          v # w => gp_model.vars[v].name # gp_model.vars[w].name
    /\ \A c, d \in DOMAIN gp_model.constrs :
          (c # d /\ gp_model.constrs[c].name # NoName)
          => gp_model.constrs[c].name # gp_model.constrs[d].name

\* the calls invocation k made, as the set of their operations
OpsOf(k) == {gp_model.calls[i].op : i \in CallsOf(k)}

\* C12: an Identity invocation on a layer with affine parameters completes
\* and makes exactly one call on the model: the addConstr of the equality
\* set `output == input @ coefs + intercept`.  It creates no variable array
\* and sets no bound.
C12_IdentityAffine ==
    \A k \in DOMAIN history :
       (history[k].enc = "Identity" /\ Affine(k))
       => LET l == history[k].layer IN
          /\ history[k].outcome = "ok"
          /\ Cardinality(CallsOf(k)) = 1
          /\ OpsOf(k) = {"addConstr"}
          /\ VarsOf(k) = {}
          /\ \A c \in ConstrsOf(k) :
                gp_model.constrs[c] =
                   Constr("affine", layer[l].output, Whole, layer[l].input,
                          Whole, 0, NoName)

\* C12 witness: Identity was invoked on a layer with affine parameters and
\* added its equality set.
C12_Witness ==
    \E k \in DOMAIN history :
       /\ history[k].enc = "Identity" /\ Affine(k)
       /\ Cardinality(ConstrsOf(k)) = 1

\* the layer invoked by a step, and the arrays the step created
StepLayer == history'[Len(history')].layer
StepEnc == history'[Len(history')].enc
NewVars == (Len(gp_model.vars) + 1)..Len(gp_model'.vars)

\* C14: in every invocation, each variable array it creates has the shape
\* of the invoked layer's output array, and the shape of no existing array
\* (so of no output array) changes.
C14_ShapePreservation ==
    [][ /\ \A v \in NewVars :
             gp_model'.vars[v].shape =
                gp_model.vars[layer[StepLayer].output].shape
        /\ \A v \in DOMAIN gp_model.vars :
             gp_model'.vars[v].shape = gp_model.vars[v].shape ]_vars

\* C14 witness: a SiLU invocation on a layer with affine parameters and a
\* two-dimensional output created mixing and the three auxiliaries.
C14_Witness ==
    \E k \in DOMAIN history :
       /\ history[k].enc = "SiLU" /\ Affine(k)
       /\ Len(ShapeOf(history[k].layer)) = 2
       /\ ShapeOf(history[k].layer)[1] # ShapeOf(history[k].layer)[2]
       /\ Cardinality(VarsOf(k)) = 4
       /\ \A v \in VarsOf(k) :
             gp_model.vars[v].shape = ShapeOf(history[k].layer)

\* C15: a ReLU invocation leaves the lower and upper bound of every
\* existing array (the output and input arrays among them) as they were
\* and never calls setAttr; an array it creates (mixing) has the bounds
\* given at creation, lb = -GRB.INFINITY and the default ub.
C15_ReLULeavesBounds ==
    [][ StepEnc = "ReLU"
        => /\ \A v \in DOMAIN gp_model.vars :
                /\ gp_model'.vars[v].lb = gp_model.vars[v].lb
                /\ gp_model'.vars[v].ub = gp_model.vars[v].ub
           /\ \A v \in NewVars :
                /\ gp_model'.vars[v].name = NameVar(StepLayer, "mix")
                /\ gp_model'.vars[v].lb = -Infinity
                /\ gp_model'.vars[v].ub = Infinity
           /\ \A i \in (Len(gp_model.calls) + 1)..Len(gp_model'.calls) :
                gp_model'.calls[i].op # "setAttr" ]_vars

\* C15 witness: ReLU was invoked, creating a mixing array, on a layer whose
\* output has the bounds (-2, 5).
C15_Witness ==
    \E k \in DOMAIN history :
       /\ history[k].enc = "ReLU" /\ VarsOf(k) # {}
       /\ gp_model.vars[layer[history[k].layer].output].lb = -2
       /\ gp_model.vars[layer[history[k].layer].output].ub = 5

\* the phase of a call on the model within its invocation:
\*   1 affine stage (and SiLU's bound setting, which precedes it):
\*     setAttr, addMVar of mixing, update, addConstr of the affine equality
\*   2 auxiliary variables: addMVar of x, exp_x, exp_sum
\*   3 activation constraints: max, negation, exp, shift, bilinear
PhaseOf(i) ==
    LET e == gp_model.calls[i] IN
    IF e.op \in {"setAttr", "update"} THEN 1
    ELSE IF e.op = "addMVar"
         THEN (IF gp_model.vars[e.id].name.role = "mix" THEN 1 ELSE 2)
         ELSE (IF gp_model.constrs[e.id].kind = "affine" THEN 1 ELSE 3)

\* C16: within one ReLU or SiLU invocation the calls come in phase order:
\* affine stage, then auxiliary arrays, then activation constraints; and
\* when activation constraints are added, the affine stage is complete
\* (with affine parameters: the update and the affine equality were made)
\* and, for SiLU, the three auxiliary arrays exist.
C16_PhaseOrder ==
    \A k \in DOMAIN history :
       history[k].enc \in Encoders
       => /\ \A i, j \in CallsOf(k) : i < j => PhaseOf(i) <= PhaseOf(j)
          /\ (\E i \in CallsOf(k) : PhaseOf(i) = 3)
             => /\ Affine(k)
                   => /\ "update" \in OpsOf(k)
                      /\ Cardinality(KindOf(k, "affine")) = 1
                /\ history[k].enc = "SiLU"
                   => /\ Created(k, "x") # {}
                      /\ Created(k, "exp_x") # {}
                      /\ Created(k, "exp_sum") # {}

\* C16 witness: a SiLU invocation on a layer with affine parameters went
\* through all three phases.
C16_Witness ==
    \E k \in DOMAIN history :
       /\ history[k].enc = "SiLU" /\ Affine(k)
       /\ {PhaseOf(i) : i \in CallsOf(k)} = {1, 2, 3}

\* C17: every max or negation constraint added by a ReLU or SiLU invocation
\* on a layer with affine parameters has as operand the array stored as
\* layer.mixing, which is not the input array, was created as
\* _name_var("mix"), and is the left side of an affine equality
\* `mixing == input @ coefs + intercept` added before that constraint.
C17_OperandConsistency ==
    \A k \in DOMAIN history :
       (history[k].enc \in Encoders /\ Affine(k))
       => LET l == history[k].layer IN
          \A c \in KindOf(k, "max") \cup KindOf(k, "neg") :
             /\ HasAttr(layer[l], "mixing")
             /\ gp_model.constrs[c].arg = layer[l].mixing
             /\ gp_model.constrs[c].arg # layer[l].input
             /\ gp_model.vars[gp_model.constrs[c].arg].name = NameVar(l, "mix")
             /\ \E a \in 1..(c - 1) :
                   gp_model.constrs[a] =
                      Constr("affine", layer[l].mixing, Whole,
                             layer[l].input, Whole, 0, NoName)

\* C17 witness: on one layer with affine parameters ReLU added max
\* constraints and a later SiLU invocation raised.
C17_Witness ==
    \E k, j \in DOMAIN history :
       /\ Affine(k) /\ history[k].layer = history[j].layer /\ k < j
       /\ history[k].enc = "ReLU" /\ KindOf(k, "max") # {}
       /\ history[j].enc = "SiLU"
       /\ history[j].outcome = "UnboundLocalError"
====
